---------------------------- MODULE Spec2Model ----------------------------
(***************************************************************************)
(* A model of the three core stages of the Ganoderma paper RAG pipeline:   *)
(*   - PDFParser._extract_structure / _is_heading  (processors/pdf_parser) *)
(*   - TextChunker                                 (processors/text_chunker)*)
(*   - SimpleRetriever                             (rag/retriever)         *)
(* Text is modelled by TLA+ strings; a character is a string of length 1.  *)
(* The CJK characters of the source are written as reserved ASCII          *)
(* characters (see CJK below), one ASCII character per CJK character, so   *)
(* that lengths and substring tests are those of the source.               *)
(***************************************************************************)
EXTENDS Integers, Sequences, FiniteSets, TLC

VARIABLES
    \* ---- PDFParser._extract_structure
    sections,          \* the list `sections`
    current_section,   \* <<>> for None, <<s>> for an open section s
    page_num,          \* the page loop's index (0-based)
    broke,             \* TRUE after `break` until the line loop of the block is left
    ppc,               \* "scan" | "done"
    nlines,            \* number of lines read so far
    seenRefs,          \* history: a references heading has been met
    doc,               \* history: the lines met so far, [text, kind] each
    origin,            \* history: for each section built, the positions in doc
                       \* of its title line and of its content lines
    \* ---- PDFParser._is_heading
    hline,             \* the argument `line`
    hret,              \* the value returned
    hpc,               \* "idle" | "call" | "returned"
    \* ---- TextChunker
    self_cfg,          \* [chunk_size, chunk_overlap, min_chunk_size]
    text,              \* the argument of chunk_text
    arg_sections,      \* the argument of chunk_by_sections
    sentences,         \* the result of _split_sentences
    pos,               \* number of sentences consumed by the loop of _create_chunks
    cc,                \* locals of _create_chunks: [chunks, current_chunk, current_size] + history
    metadata,          \* the caller's metadata (<<>> for None)
    chunk_dicts,       \* the value returned
    cpc,               \* chunk_text: "start" | "loop" | "wrap" | "done";
                       \* chunk_by_sections: "start_sections" | "done_sections"
    \* ---- SimpleRetriever
    self_chunks,       \* self.chunks
    query, top_k, method,   \* the arguments of the last retrieve
    search_query,      \* retrieve's local: the translated query
    results,           \* the value returned by the last retrieve
    rpc,               \* "idle" | "returned"
    calls,             \* the calls of retrieve that run at the same time: for
                       \* each caller the arguments and locals of its call
    loaded,            \* history: what the most recent load_chunks call that
                       \* found a file read from it (<<>> before any)
    replaced           \* history: the most recent call was a load_chunks that
                       \* read a file while the corpus held chunks

pvars == <<sections, current_section, page_num, broke, ppc, nlines, seenRefs, doc, origin>>
cvars == <<self_cfg, text, arg_sections, sentences, pos, cc, metadata, chunk_dicts, cpc>>
rvars == <<self_chunks, query, top_k, method, search_query, results, rpc, calls, loaded, replaced>>
hvars == <<hline, hret, hpc>>
vars == <<pvars, hvars, cvars, rvars>>

(***************************************************************************)
(* Strings                                                                 *)
(***************************************************************************)
Ch(s, i) == SubSeq(s, i, i)

UpperChars == "ABCDEFGHIJKLMNOPQRSTUVWXYZ"
LowerChars == "abcdefghijklmnopqrstuvwxyz"
DigitChars == "0123456789"

CharsOf(s) == {Ch(s, i) : i \in 1..Len(s)}
UpperSet == CharsOf(UpperChars)
LowerSet == CharsOf(LowerChars)
DigitSet == CharsOf(DigitChars)
Whitespace == {" ", "\t", "\n", "\r", "\f"}

IsSpace(c) == c \in Whitespace

\* the lower-case letter of every upper-case letter
LowerOf == [c \in UpperSet |-> Ch(LowerChars, CHOOSE i \in 1..26 : Ch(UpperChars, i) = c)]

LowerCh(c) == IF c \in UpperSet THEN LowerOf[c] ELSE c

RECURSIVE LowerFrom(_, _)
LowerFrom(s, i) ==
    IF i > Len(s) THEN "" ELSE LowerCh(Ch(s, i)) \o LowerFrom(s, i + 1)

\* str.lower()
Lower(s) == LowerFrom(s, 1)

\* str.isupper(): at least one cased character and no lower-case one
IsUpper(s) ==
    /\ \E i \in 1..Len(s) : Ch(s, i) \in UpperSet
    /\ \A i \in 1..Len(s) : Ch(s, i) \notin LowerSet

\* str.strip()
Strip(s) ==
    LET keep == {i \in 1..Len(s) : ~IsSpace(Ch(s, i))}
    IN  IF keep = {} THEN ""
        ELSE LET lo == CHOOSE i \in keep : \A j \in keep : i <= j
                 hi == CHOOSE i \in keep : \A j \in keep : j <= i
             IN  SubSeq(s, lo, hi)

\* s[i:].startswith(p), i 1-based
MatchAt(s, i, p) ==
    /\ i + Len(p) - 1 <= Len(s)
    /\ SubSeq(s, i, i + Len(p) - 1) = p

StartsWith(s, p) == MatchAt(s, 1, p)

\* `p in s`
Contains(s, p) == \E i \in 1..(Len(s) - Len(p) + 1) : MatchAt(s, i, p)

RECURSIVE CountFrom(_, _, _)
CountFrom(s, p, i) ==
    IF i + Len(p) - 1 > Len(s) THEN 0
    ELSE IF MatchAt(s, i, p) THEN 1 + CountFrom(s, p, i + Len(p))
    ELSE CountFrom(s, p, i + 1)

\* str.count(p) for a non-empty p: occurrences found scanning left to right,
\* the scan resuming after the end of each occurrence
Count(s, p) == CountFrom(s, p, 1)

RECURSIVE SplitFrom(_, _)
SplitFrom(s, i) ==
    IF i > Len(s) THEN <<>>
    ELSE IF IsSpace(Ch(s, i)) THEN SplitFrom(s, i + 1)
    ELSE LET stops == {j \in i..Len(s) : IsSpace(Ch(s, j))}
             e == IF stops = {} THEN Len(s) + 1
                  ELSE CHOOSE j \in stops : \A k \in stops : j <= k
         IN  <<SubSeq(s, i, e - 1)>> \o SplitFrom(s, e)

\* str.split() without argument
Split(s) == SplitFrom(s, 1)

RECURSIVE Join(_, _)
\* sep.join(parts)
Join(parts, sep) ==
    IF parts = <<>> THEN ""
    ELSE IF Len(parts) = 1 THEN parts[1]
    ELSE parts[1] \o sep \o Join(Tail(parts), sep)

Range(f) == {f[i] : i \in DOMAIN f}

(***************************************************************************)
(* The CJK characters of the source, one reserved ASCII character each.    *)
(*   ling zhi   (Ganoderma)       "#$"     mian yi    (immune)     "%&"    *)
(*   ai zheng   (cancer)          "*+"     gong xiao  (effect)     "/:"    *)
(*   lin chuang (clinical)        ";<"     shi yan    (trial)      "=>"    *)
(*   duo tang ti (polysaccharide) "@^_"    san tie    (triterpene) "~|"    *)
(*   can kao wen xian (references) "{}[]"                                  *)
(***************************************************************************)
CJK == [lingzhi |-> "#$", mianyi |-> "%&", aizheng |-> "*+", gongxiao |-> "/:",
        linchuang |-> ";<", shiyan |-> "=>", duotangti |-> "@^_", santie |-> "~|",
        cankaowenxian |-> "{}[]"]

(***************************************************************************)
(* PDFParser                                                               *)
(***************************************************************************)
LargeFontSize == 12
ShortTextLen == 100
BoldFlag == 16
MinUpperLen == 3

\* heading_patterns[0], matched with re.IGNORECASE at the start of the text;
\* `Methods?` matches exactly when the text starts with "method", and so on
HeadingKeywords ==
    <<"abstract", "introduction", "method", "result", "discussion",
      "conclusion", "reference">>

\* heading_patterns[1]: ^\d+\.?\s+[A-Z] with re.IGNORECASE
NumberedHeading(t) ==
    \E d \in 1..Len(t) :
        /\ \A i \in 1..d : Ch(t, i) \in DigitSet
        /\ \E w \in 1..2 :
              LET a == IF w = 1 THEN d + 1 ELSE d + 2 IN
              /\ (w = 2 => MatchAt(t, d + 1, "."))
              /\ \E b \in a..Len(t) :
                    /\ \A i \in a..b : IsSpace(Ch(t, i))
                    /\ b + 1 <= Len(t)
                    /\ Ch(t, b + 1) \in UpperSet \cup LowerSet

\* a large font makes a heading only when it is bold
IsHeading_NeedsBold(line) ==
    IF line.spans = <<>> THEN FALSE
    ELSE LET span == line.spans[1]
             t == Strip(span.text)
         IN  \/ ((span.flags \div BoldFlag) % 2 = 1 /\ span.size > LargeFontSize)
             \/ (IsUpper(t) /\ Len(t) > MinUpperLen)
             \/ \E k \in DOMAIN HeadingKeywords : StartsWith(Lower(t), HeadingKeywords[k])
             \/ NumberedHeading(t)

\* _is_heading(line)
IsHeading(line) ==
    IF line.spans = <<>> THEN FALSE
    ELSE LET span == line.spans[1]
             is_bold == (span.flags \div BoldFlag) % 2 = 1
             is_large == span.size > LargeFontSize
             t == Strip(span.text)
             is_short == Len(t) < ShortTextLen
             is_uppercase == IsUpper(t) /\ Len(t) > MinUpperLen
             matches_pattern ==
                 \/ \E k \in DOMAIN HeadingKeywords : StartsWith(Lower(t), HeadingKeywords[k])
                 \/ NumberedHeading(t)
         IN  \/ (is_bold /\ is_large)
             \/ (is_large /\ is_short)
             \/ is_uppercase
             \/ matches_pattern

\* only headings that are the word References end the scan
IsReferences_WordOnly(t) == t = "References"

\* re.search(r'References?|Bibliography|<can kao wen xian>', text, re.IGNORECASE)
IsReferences(t) ==
    \/ Contains(Lower(t), "reference")
    \/ Contains(Lower(t), "bibliography")
    \/ Contains(t, CJK.cankaowenxian)

RECURSIVE SpanText(_)
\* the concatenation of the spans' texts
SpanText(spans) ==
    IF spans = <<>> THEN "" ELSE spans[1].text \o SpanText(Tail(spans))

LineText(line) == Strip(SpanText(line.spans))

Span(t, size, flags) == [text |-> t, size |-> size, flags |-> flags]

\* The lines a document is made of.
Lines ==
    { [spans |-> <<Span("Abstract", 10, 0)>>],
      [spans |-> <<Span("Meth", 14, 16), Span("ods ", 14, 16)>>],
      [spans |-> <<Span("This study examines Ganoderma.", 10, 0)>>],
      [spans |-> <<Span("References", 14, 16)>>],
      [spans |-> <<Span("3. BIBLIOGRAPHY", 10, 0)>>],
      [spans |-> <<Span("We used water extraction.", 10, 0)>>],
      [spans |-> <<Span("[1] Smith J. Ganoderma review.", 10, 0)>>],
      [spans |-> <<Span("  ", 10, 0)>>] }

MaxLines == 4
MaxPages == 2

\* What the line loop does with a line (lines 148-172): "empty" is skipped,
\* "refs" ends the loop, "heading" opens a section, "body" is content.
LineKind(line) ==
    IF LineText(line) = "" THEN "empty"
    ELSE IF IsHeading(line)
         THEN IF IsReferences(LineText(line)) THEN "refs" ELSE "heading"
         ELSE "body"

\* lines 163-170: the section a heading opens
OpenSection(t, page) == <<[title |-> t, page |-> page, content |-> <<>>]>>

\* a body line met while no section is open opens a section of its own
AppendBody_OpenUntitled(cur, t) ==
    IF cur # <<>> THEN <<[cur[1] EXCEPT !.content = Append(@, t)]>>
    ELSE <<[title |-> "Untitled", page |-> 1, content |-> <<t>>]>>

\* a body line is put before the lines the section already holds
AppendBody_Prepend(cur, t) ==
    IF cur # <<>> THEN <<[cur[1] EXCEPT !.content = <<t>> \o @]>> ELSE cur

\* lines 171-172: `elif current_section: current_section['content'].append(text)`
AppendBody(cur, t) ==
    IF cur # <<>> THEN <<[cur[1] EXCEPT !.content = Append(@, t)]>> ELSE cur

\* The text and the kind of every line of Lines, worked out once.
Classified == [line \in Lines |-> [text |-> LineText(line), kind |-> LineKind(line)]]

\* One iteration of `for line in block.get("lines", [])` (lines 143-172).
ScanLine(line) ==
    /\ ppc = "scan" /\ ~broke /\ nlines < MaxLines
    /\ nlines' = nlines + 1
    /\ doc' = Append(doc, Classified[line])
    /\ LET t == Classified[line].text
           kind == Classified[line].kind
       IN
       IF kind = "empty" THEN
            UNCHANGED <<sections, current_section, broke, seenRefs, origin>>
       ELSE IF kind = "refs" THEN
            /\ broke' = TRUE
            /\ seenRefs' = TRUE
            /\ UNCHANGED <<sections, current_section, origin>>
       ELSE IF kind = "heading" THEN
            /\ sections' = sections \o current_section
            /\ current_section' = OpenSection(t, page_num + 1)
            /\ origin' = Append(origin, [title |-> Len(doc) + 1, content |-> <<>>])
            /\ UNCHANGED <<broke, seenRefs>>
       ELSE /\ current_section' = AppendBody(current_section, t)
            /\ origin' = IF current_section # <<>>
                          THEN [origin EXCEPT ![Len(origin)].content = Append(@, Len(doc) + 1)]
                          ELSE origin
            /\ UNCHANGED <<sections, broke, seenRefs>>
    /\ UNCHANGED <<page_num, ppc, hvars, cvars, rvars>>

\* A line of the block that the `break` of line 160 leaves unread.
SkipLine ==
    /\ ppc = "scan" /\ broke /\ nlines < MaxLines
    /\ nlines' = nlines + 1
    /\ doc' = Append(doc, [text |-> "", kind |-> "skipped"])
    /\ UNCHANGED <<sections, current_section, page_num, broke, ppc, seenRefs, origin, hvars, cvars, rvars>>

\* `for block in blocks` moves to the next block (line 141) after the `break`
\* has ended the line loop of the block before it.  (A block boundary that no
\* `break` precedes, and a block that is not a text block, change nothing.)
NextBlock ==
    /\ ppc = "scan" /\ broke
    /\ broke' = FALSE
    /\ UNCHANGED <<sections, current_section, page_num, ppc, nlines, seenRefs, doc, origin, hvars, cvars, rvars>>

\* `for page_num in range(len(doc))` moves to the next page (line 135).
NextPage ==
    /\ ppc = "scan" /\ page_num + 1 < MaxPages
    /\ page_num' = page_num + 1
    /\ broke' = FALSE
    /\ UNCHANGED <<sections, current_section, ppc, nlines, seenRefs, doc, origin, hvars, cvars, rvars>>

\* lines 174-178: add the last section and return
FinishExtract ==
    /\ ppc = "scan"
    /\ sections' = sections \o current_section
    /\ ppc' = "done"
    /\ UNCHANGED <<current_section, page_num, broke, nlines, seenRefs, doc, origin, hvars, cvars, rvars>>

PInit ==
    /\ sections = <<>>
    /\ current_section = <<>>
    /\ page_num = 0
    /\ broke = FALSE
    /\ ppc = "scan"
    /\ nlines = 0
    /\ seenRefs = FALSE
    /\ doc = <<>>
    /\ origin = <<>>

PNext ==
    \/ \E line \in Lines : ScanLine(line)
    \/ SkipLine
    \/ NextBlock
    \/ NextPage
    \/ FinishExtract

(***************************************************************************)
(* PDFParser._is_heading, called on its own                                *)
(***************************************************************************)
\* Texts of a first span: plain, upper-case of four and of three letters,
\* digits only, keywords in either case and after leading blanks, numbered
\* prefixes (good and bad), and texts of 100 and of 99 characters.
Text99 ==
    LET t11 == "ganoderma, " IN
    t11 \o t11 \o t11 \o t11 \o t11 \o t11 \o t11 \o t11 \o t11

SpanTexts ==
    {"Ganoderma lucidum", "ABCD", "DNA", "1234", "abstract of work", " Results",
     "1. intro", "2 Methods", "12.Intro", Text99 \o "x", Text99, ""}

SpanSizes == {12, 13}
SpanFlags == {0, 4, 16, 20}

HeadingSpans == {Span(t, size, flags) : t \in SpanTexts, size \in SpanSizes, flags \in SpanFlags}

\* lines of no span, of one span, and of one span followed by a span that
\* would make a heading by itself
HeadingLines ==
    {[spans |-> <<>>]}
        \cup {[spans |-> <<sp>>] : sp \in HeadingSpans}
        \cup {[spans |-> <<sp, Span("1. Introduction", 14, 16)>>] : sp \in HeadingSpans}

HIdle == hline = [spans |-> <<>>] /\ hret = FALSE /\ hpc = "idle"

HInit == hline \in HeadingLines /\ hret = FALSE /\ hpc = "call"

\* _is_heading(line) runs and returns
CallIsHeading ==
    /\ hpc = "call"
    /\ hret' = IsHeading(hline)
    /\ hpc' = "returned"
    /\ UNCHANGED <<hline, pvars, cvars, rvars>>

HNext ==
    \/ CallIsHeading

(***************************************************************************)
(* TextChunker                                                             *)
(***************************************************************************)
SentenceEnd == {".", "!", "?"}

\* where the run of whitespace that starts at i ends: the first position
\* from i on that holds no whitespace, Len(t) + 1 if there is none
RunEnd(t, i) ==
    LET rest == {j \in i..Len(t) : ~IsSpace(Ch(t, j))}
    IN  IF rest = {} THEN Len(t) + 1
        ELSE CHOOSE a \in rest : \A b \in rest : a <= b

\* The separators of re.split(r'(?<=[.!?])\s+(?=[A-Z])', t), by the position
\* they start at: a separator is a maximal run of whitespace that follows
\* one of . ! ? and is followed by an upper-case letter.
SeparatorStarts(t) ==
    {i \in 2..Len(t) :
        /\ Ch(t, i - 1) \in SentenceEnd
        /\ IsSpace(Ch(t, i))
        /\ RunEnd(t, i) <= Len(t)
        /\ Ch(t, RunEnd(t, i)) \in UpperSet}

RECURSIVE SplitPieces(_, _, _)
\* The pieces between the separators: `start` is where the current piece
\* begins, `seps` the starts of the separators still ahead.
SplitPieces(t, start, seps) ==
    IF seps = {} THEN <<SubSeq(t, start, Len(t))>>
    ELSE LET i == CHOOSE a \in seps : \A b \in seps : a <= b
         IN  <<SubSeq(t, start, i - 1)>> \o SplitPieces(t, RunEnd(t, i), seps \ {i})

RECURSIVE StripAll(_)
\* [s.strip() for s in pieces if s.strip()]
StripAll(pieces) ==
    IF pieces = <<>> THEN <<>>
    ELSE LET s == Strip(pieces[1])
         IN  (IF s = "" THEN <<>> ELSE <<s>>) \o StripAll(Tail(pieces))

\* _split_sentences(t)
SplitSentences(t) == StripAll(SplitPieces(t, 1, SeparatorStarts(t)))

RECURSIVE SumLen(_)
SumLen(ss) == IF ss = <<>> THEN 0 ELSE Len(ss[1]) + SumLen(Tail(ss))

RECURSIVE OverlapCount_NoLen(_, _, _, _)
\* the overlap loop with the budget tested before the sentence is counted
OverlapCount_NoLen(cur, n, size, ov) ==
    IF n = Len(cur) THEN n
    ELSE LET s == cur[Len(cur) - n]
         IN  IF size <= ov
             THEN OverlapCount_NoLen(cur, n + 1, size + Len(s), ov)
             ELSE n

RECURSIVE OverlapCount_Strict(_, _, _, _)
\* the overlap loop with the budget never used up entirely
OverlapCount_Strict(cur, n, size, ov) ==
    IF n = Len(cur) THEN n
    ELSE LET s == cur[Len(cur) - n]
         IN  IF size + Len(s) < ov
             THEN OverlapCount_Strict(cur, n + 1, size + Len(s), ov)
             ELSE n

RECURSIVE OverlapCount(_, _, _, _)
\* `for s in reversed(current_chunk)` (lines 169-174): the number of trailing
\* sentences kept, n of them taken so far with summed length `size`
OverlapCount(cur, n, size, ov) ==
    IF n = Len(cur) THEN n
    ELSE LET s == cur[Len(cur) - n]
         IN  IF size + Len(s) <= ov
             THEN OverlapCount(cur, n + 1, size + Len(s), ov)
             ELSE n

\* the overlap is taken from the head of the buffer
LastN_FromHead(seq, n) == SubSeq(seq, 1, n)

LastN(seq, n) == SubSeq(seq, Len(seq) - n + 1, Len(seq))

\* The locals of _create_chunks at the start of the loop, with the history
\* the properties are stated on: cur_ix, the positions (in `sentences`) of
\* the sentences of current_chunk; seed, how many of them came from the
\* overlap; closed, one entry per buffer closed so far.
CreateInit ==
    [chunks |-> <<>>, current_chunk |-> <<>>, current_size |-> 0,
     cur_ix |-> <<>>, seed |-> 0, closed |-> <<>>]

\* the condition of line 157 with the sentence's own size left out
MustClose_NoSentence(st, sentence, cfg) ==
    st.current_size > cfg.chunk_size /\ st.current_chunk # <<>>

\* the condition of line 157
MustClose(st, sentence, cfg) ==
    st.current_size + Len(sentence) > cfg.chunk_size /\ st.current_chunk # <<>>

\* lines 159-161 (and 185-187): the buffer is emitted if it is long enough
EmitBuffer(st, cfg) ==
    LET chunk_text == Join(st.current_chunk, " ")
        keep == Len(chunk_text) >= cfg.min_chunk_size
    IN  [st EXCEPT
            !.chunks = IF keep THEN Append(@, chunk_text) ELSE @,
            !.closed = Append(@, [ix |-> st.cur_ix, seed |-> st.seed, kept |-> keep])]

\* One iteration of `for sentence in sentences` (lines 153-181); k is the
\* position of the sentence.
CreateStep(st, sentence, k, cfg) ==
    LET closed == IF MustClose(st, sentence, cfg)
                  THEN LET e == EmitBuffer(st, cfg)
                           n == OverlapCount(st.current_chunk, 0, 0, cfg.chunk_overlap)
                           overlap_sentences == LastN(st.current_chunk, n)
                       IN  [e EXCEPT !.current_chunk = overlap_sentences,
                                     !.current_size = SumLen(overlap_sentences),
                                     !.cur_ix = LastN(st.cur_ix, n),
                                     !.seed = n]
                  ELSE st
    IN  [closed EXCEPT !.current_chunk = Append(@, sentence),
                       !.current_size = @ + Len(sentence),
                       !.cur_ix = Append(@, k)]

\* the last chunk is forgotten
FlushLast_Skip(st, cfg) == st

\* the last chunk is kept only when longer than min_chunk_size
FlushLast_StrictMin(st, cfg) ==
    IF st.current_chunk # <<>> /\ Len(Join(st.current_chunk, " ")) = cfg.min_chunk_size
    THEN [st EXCEPT !.closed = Append(@, [ix |-> st.cur_ix, seed |-> st.seed, kept |-> FALSE])]
    ELSE IF st.current_chunk # <<>> THEN EmitBuffer(st, cfg) ELSE st

\* the last chunk is kept whatever its length
FlushLast_NoMin(st, cfg) ==
    IF st.current_chunk # <<>>
    THEN [st EXCEPT
            !.chunks = Append(@, Join(st.current_chunk, " ")),
            !.closed = Append(@, [ix |-> st.cur_ix, seed |-> st.seed, kept |-> TRUE])]
    ELSE st

\* lines 183-189
FlushLast(st, cfg) ==
    IF st.current_chunk # <<>> THEN EmitBuffer(st, cfg) ELSE st

RECURSIVE CreateLoop(_, _, _, _)
CreateLoop(st, ss, k, cfg) ==
    IF k > Len(ss) THEN st
    ELSE CreateLoop(CreateStep(st, ss[k], k, cfg), ss, k + 1, cfg)

\* _create_chunks(ss)
CreateChunks(ss, cfg) == FlushLast(CreateLoop(CreateInit, ss, 1, cfg), cfg).chunks

\* dict.update: the keys of m win
Update(d, m) ==
    [key \in DOMAIN d \cup DOMAIN m |-> IF key \in DOMAIN m THEN m[key] ELSE d[key]]

\* the chunk dictionary numbered from 1
ChunkDict_OneBased(chunks, i, md) ==
    Update([chunk_index |-> i, total_chunks |-> Len(chunks), content |-> chunks[i],
            char_count |-> Len(chunks[i]), word_count |-> Len(Split(chunks[i]))], md)

\* the generated fields are written over the caller's metadata
ChunkDict_GeneratedWins(chunks, i, md) ==
    Update(md, [chunk_index |-> i - 1, total_chunks |-> Len(chunks), content |-> chunks[i],
                char_count |-> Len(chunks[i]), word_count |-> Len(Split(chunks[i]))])

\* word_count counts the pieces between single spaces
ChunkDict_WordsBySpace(chunks, i, md) ==
    Update([chunk_index |-> i - 1, total_chunks |-> Len(chunks), content |-> chunks[i],
            char_count |-> Len(chunks[i]), word_count |-> Count(chunks[i], " ") + 1], md)

\* lines 58-68: the dictionary of chunks[i] (i 1-based here, enumerate's i is i - 1);
\* md is the caller's metadata, <<>> when None or empty
ChunkDict(chunks, i, md) ==
    Update([chunk_index |-> i - 1, total_chunks |-> Len(chunks), content |-> chunks[i],
            char_count |-> Len(chunks[i]), word_count |-> Len(Split(chunks[i]))], md)

\* lines 56-73
WrapChunks(chunks, md) == [i \in 1..Len(chunks) |-> ChunkDict(chunks, i, md)]

\* chunk_text(t, md)
ChunkText(t, md, cfg) ==
    IF t = "" \/ Strip(t) = "" THEN <<>>
    ELSE WrapChunks(CreateChunks(SplitSentences(t), cfg), md)

\* lines 93-107: the chunks of one section
SectionChunks(section, md, cfg) ==
    LET section_title == section.title
        section_content == Join(section.content, " ")
        section_text == section_title \o "\n\n" \o section_content
        chunks == ChunkText(section_text, <<>>, cfg)
    IN  [i \in 1..Len(chunks) |->
            Update(Update(chunks[i], [section |-> section_title, page |-> section.page]), md)]

RECURSIVE AllSectionChunks_Reversed(_, _, _)
\* the chunks of a section are put before those of the sections before it
AllSectionChunks_Reversed(secs, md, cfg) ==
    IF secs = <<>> THEN <<>>
    ELSE AllSectionChunks_Reversed(Tail(secs), md, cfg) \o SectionChunks(secs[1], md, cfg)

RECURSIVE AllSectionChunks(_, _, _)
\* lines 90-109
AllSectionChunks(secs, md, cfg) ==
    IF secs = <<>> THEN <<>>
    ELSE SectionChunks(secs[1], md, cfg) \o AllSectionChunks(Tail(secs), md, cfg)

\* lines 111-115
Renumber(all_chunks) ==
    [i \in 1..Len(all_chunks) |->
        Update(all_chunks[i], [chunk_index |-> i - 1, total_chunks |-> Len(all_chunks)])]

\* chunk_by_sections(secs, md)
ChunkBySections(secs, md, cfg) == Renumber(AllSectionChunks(secs, md, cfg))

MaxSentences == 3
MaxChunkSize == 6
MaxOverlap == 4
MaxMinSize == 3
MaxSections == 2

\* Pieces of input text: sentences with the whitespace that follows them.
\* "F. g? " is one sentence (no capital after the full stop) and "Hi " has no
\* end mark, so it runs into the piece after it.
TextPieces == {"A. ", "Cde!\n", "F. g? ", "Hi "}

RECURSIVE Concat(_)
Concat(ps) == IF ps = <<>> THEN "" ELSE ps[1] \o Concat(Tail(ps))

SeqsUpTo(S, n) == UNION {[1..m -> S] : m \in 0..n}

Texts == {Concat(ps) : ps \in SeqsUpTo(TextPieces, MaxSentences)} \cup {" \n"}

\* __init__ (lines 24-26) stores its arguments as they are given: no value
\* of chunk_size is refused, zero included (a negative one behaves as zero:
\* every sentence closes the buffer before it).
Configs ==
    [chunk_size : 0..MaxChunkSize, chunk_overlap : 0..MaxOverlap,
     min_chunk_size : 0..MaxMinSize]

NoMetadata == [key \in {} |-> 0]

Metadatas ==
    { NoMetadata,
      [source |-> "test"],
      [chunk_index |-> 7, source |-> "test"],
      [total_chunks |-> 0, char_count |-> 0],
      [section |-> "Other", page |-> 9, content |-> "X", word_count |-> 0] }

SectionSet ==
    { [title |-> "Ab", page |-> 1, content |-> <<>>],
      [title |-> "Abstract", page |-> 1, content |-> <<"Cde! Cde!", "A.">>],
      [title |-> "Methods.", page |-> 2, content |-> <<"Hi F. g?">>] }

\* an empty or blank text gives one chunk, of the stripped text
ChunkTextEmpty_OneChunk ==
    /\ cpc = "start"
    /\ (text = "" \/ Strip(text) = "")
    /\ chunk_dicts' = WrapChunks(<<Strip(text)>>, NoMetadata)
    /\ cpc' = "done"
    /\ UNCHANGED <<self_cfg, text, arg_sections, sentences, pos, cc, metadata, pvars, hvars, rvars>>

\* chunk_text, lines 45-47: empty or blank text
ChunkTextEmpty ==
    /\ cpc = "start"
    /\ (text = "" \/ Strip(text) = "")
    /\ chunk_dicts' = <<>>
    /\ cpc' = "done"
    /\ UNCHANGED <<self_cfg, text, arg_sections, sentences, pos, cc, metadata, pvars, hvars, rvars>>

\* chunk_text, line 50
DoSplitSentences ==
    /\ cpc = "start"
    /\ ~(text = "" \/ Strip(text) = "")
    /\ sentences' = SplitSentences(text)
    /\ pos' = 0
    /\ cc' = CreateInit
    /\ cpc' = "loop"
    /\ UNCHANGED <<self_cfg, text, arg_sections, metadata, chunk_dicts, pvars, hvars, rvars>>

\* _create_chunks, one iteration of the loop
CreateChunksIter ==
    /\ cpc = "loop"
    /\ pos < Len(sentences)
    /\ cc' = CreateStep(cc, sentences[pos + 1], pos + 1, self_cfg)
    /\ pos' = pos + 1
    /\ UNCHANGED <<self_cfg, text, arg_sections, sentences, metadata, chunk_dicts, cpc, pvars, hvars, rvars>>

\* _create_chunks, after the loop
CreateChunksFlush ==
    /\ cpc = "loop"
    /\ pos = Len(sentences)
    /\ cc' = FlushLast(cc, self_cfg)
    /\ cpc' = "wrap"
    /\ UNCHANGED <<self_cfg, text, arg_sections, sentences, pos, metadata, chunk_dicts, pvars, hvars, rvars>>

\* chunk_text, lines 56-73; the caller's metadata is read here
DoWrapChunks ==
    /\ cpc = "wrap"
    /\ \E md \in Metadatas :
          /\ metadata' = md
          /\ chunk_dicts' = WrapChunks(cc.chunks, md)
    /\ cpc' = "done"
    /\ UNCHANGED <<self_cfg, text, arg_sections, sentences, pos, cc, pvars, hvars, rvars>>

\* chunk_by_sections
DoChunkBySections ==
    /\ cpc = "start_sections"
    /\ \E md \in Metadatas :
          /\ metadata' = md
          /\ chunk_dicts' = ChunkBySections(arg_sections, md, self_cfg)
    /\ cpc' = "done_sections"
    /\ UNCHANGED <<self_cfg, text, arg_sections, sentences, pos, cc, pvars, hvars, rvars>>

CInit ==
    /\ self_cfg \in Configs
    /\ \/ /\ cpc = "start"
          /\ text \in Texts
          /\ arg_sections = <<>>
       \/ /\ cpc = "start_sections"
          /\ text = ""
          /\ arg_sections \in SeqsUpTo(SectionSet, MaxSections)
    /\ sentences = <<>>
    /\ pos = 0
    /\ cc = CreateInit
    /\ metadata = NoMetadata
    /\ chunk_dicts = <<>>

CNext ==
    \/ ChunkTextEmpty
    \/ DoSplitSentences
    \/ CreateChunksIter
    \/ CreateChunksFlush
    \/ DoWrapChunks
    \/ DoChunkBySections

(***************************************************************************)
(* SimpleRetriever                                                         *)
(***************************************************************************)
\* keywords_map, in insertion order (lines 98-107)
KeywordsMap ==
    << [key |-> CJK.lingzhi,   value |-> "Ganoderma lucidum"],
       [key |-> CJK.mianyi,    value |-> "immune immunomodulatory"],
       [key |-> CJK.aizheng,   value |-> "cancer tumor"],
       [key |-> CJK.gongxiao,  value |-> "effect benefit"],
       [key |-> CJK.linchuang, value |-> "clinical"],
       [key |-> CJK.shiyan,    value |-> "trial"],
       [key |-> CJK.duotangti, value |-> "polysaccharide"],
       [key |-> CJK.santie,    value |-> "triterpenoid"] >>

RECURSIVE TranslatedParts(_, _)
\* lines 109-114: the values of the keys found in q, from entry i on
TranslatedParts(q, i) ==
    IF i > Len(KeywordsMap) THEN <<>>
    ELSE (IF Contains(q, KeywordsMap[i].key) THEN <<KeywordsMap[i].value>> ELSE <<>>)
         \o TranslatedParts(q, i + 1)

\* the original query is not appended
TranslateQuery_NoOriginal(q) ==
    LET translated_parts == TranslatedParts(q, 1)
    IN  IF translated_parts # <<>> THEN Join(translated_parts, " ") ELSE q

\* _translate_query(q)
TranslateQuery(q) ==
    LET translated_parts == TranslatedParts(q, 1)
    IN  IF translated_parts # <<>>
        THEN Join(translated_parts, " ") \o " " \o q
        ELSE q

MinTermLen == 3

\* dict.get(key, default)
Get(d, key, default) == IF key \in DOMAIN d THEN d[key] ELSE default

\* a term scores once for every place it starts at, overlaps included
TermScore_EveryStart(content, term) ==
    IF Len(term) < MinTermLen THEN 0
    ELSE Cardinality({i \in 1..Len(content) : MatchAt(content, i, term)})

\* a term scores 1 when it is present
TermScore_Presence(content, term) ==
    IF Len(term) < MinTermLen THEN 0
    ELSE IF Contains(content, term) THEN 1 ELSE 0

\* lines 147-148: what one term adds to the score
TermScore(content, term) ==
    IF Len(term) < MinTermLen THEN 0 ELSE Count(content, term)

RECURSIVE ScoreOf(_, _)
\* lines 145-148: the score of a lower-cased content for a set of terms
ScoreOf(content, terms) ==
    IF terms = {} THEN 0
    ELSE LET term == CHOOSE t \in terms : TRUE
         IN  TermScore(content, term) + ScoreOf(content, terms \ {term})

\* lines 136-137
QueryTerms(q) == Range(Split(Lower(q)))

RECURSIVE ScoreOfWords(_, _)
\* the score summed over the words of the query, a repeated word counted
\* each time
ScoreOfWords(content, words) ==
    IF words = <<>> THEN 0
    ELSE TermScore(content, words[1]) + ScoreOfWords(content, Tail(words))

\* the query's words are not made a set
ChunkScore_PerWord(chunk, q) ==
    ScoreOfWords(Lower(Get(chunk, "content", "")), Split(Lower(q)))

\* lines 142-148
ChunkScore(chunk, q) == ScoreOf(Lower(Get(chunk, "content", "")), QueryTerms(q))

\* chunks of score 0 are kept too
IsScored_NonNegative(score) == score >= 0

\* line 150
IsScored(score) == score > 0

RECURSIVE ScoredChunks(_, _, _)
\* lines 139-154: the scored chunks from chunk i on, in corpus order
ScoredChunks(chunks, q, i) ==
    IF i > Len(chunks) THEN <<>>
    ELSE LET score == ChunkScore(chunks[i], q)
         IN  (IF IsScored(score) THEN <<Update(chunks[i], [score |-> score])>> ELSE <<>>)
             \o ScoredChunks(chunks, q, i + 1)

\* x goes before the records of equal score
InsertPlace_BeforeTies(sorted, x) ==
    Cardinality({j \in 1..Len(sorted) : sorted[j].score > x.score})

\* the sort without reverse=True: ascending scores
InsertPlace_Ascending(sorted, x) ==
    Cardinality({j \in 1..Len(sorted) : sorted[j].score <= x.score})

\* the number of records of `sorted` that stay before x when x, which comes
\* after them all in the list being sorted, is put in its place: list.sort is
\* stable, with reverse=True too
InsertPlace(sorted, x) ==
    Cardinality({j \in 1..Len(sorted) : sorted[j].score >= x.score})

RECURSIVE SortByScore(_, _)
\* line 157: scored_chunks.sort(key=score, reverse=True); `sorted` holds the
\* records placed so far
SortByScore(sorted, rest) ==
    IF rest = <<>> THEN sorted
    ELSE LET x == rest[1]
             n == InsertPlace(sorted, x)
         IN  SortByScore(SubSeq(sorted, 1, n) \o <<x>> \o SubSeq(sorted, n + 1, Len(sorted)),
                         Tail(rest))

\* one record too many
TopSlice_OneMore(seq, k) == SubSeq(seq, 1, IF k + 1 < Len(seq) THEN k + 1 ELSE Len(seq))

\* line 160: seq[:k]
TopSlice(seq, k) ==
    IF k >= 0 THEN SubSeq(seq, 1, IF k < Len(seq) THEN k ELSE Len(seq))
    ELSE SubSeq(seq, 1, IF Len(seq) + k > 0 THEN Len(seq) + k ELSE 0)

\* _keyword_retrieval(q, k)
KeywordRetrieval(chunks, q, k) ==
    TopSlice(SortByScore(<<>>, ScoredChunks(chunks, q, 1)), k)

\* retrieve with an empty corpus answered by an error entry instead of []
Retrieve_ErrorOnEmpty(chunks, q, k, m) ==
    IF chunks = <<>> THEN <<[error |-> "No chunks loaded"]>>
    ELSE IF m \in {"keyword", "vector"} THEN KeywordRetrieval(chunks, TranslateQuery(q), k)
    ELSE <<>>

\* retrieve(q, k, m), lines 71-85
Retrieve(chunks, q, k, m) ==
    IF chunks = <<>> THEN <<>>
    ELSE IF m \in {"keyword", "vector"} THEN KeywordRetrieval(chunks, TranslateQuery(q), k)
    ELSE <<>>

MaxCorpus == 3
MaxTopK == 2

\* What a chunks file may hold: chunk dictionaries as chunk_by_sections
\* numbers them, and one without content.
Contents ==
    { "Ganoderma lucidum immune Ganoderma", "Ganoderma tea", "IMMUNE ababa" }

ChunkOf(c, i) == [content |-> c, chunk_index |-> i - 1]

Corpora ==
    { [i \in 1..Len(cs) |-> IF cs[i] = "none" THEN [chunk_index |-> i - 1]
                            ELSE ChunkOf(cs[i], i)] :
        cs \in SeqsUpTo(Contents \cup {"none"}, MaxCorpus) }

Queries ==
    { "Ganoderma immune", "#$ %&", "aba ab", "immune  Immune tea", "polysaccharide" }

Methods == {"keyword", "vector", "bm25"}

\* the chunks of the file are added to those the corpus holds
LoadChunks_Append ==
    /\ rpc = "idle"
    /\ \E file \in Corpora : self_chunks' = self_chunks \o file /\ loaded' = file
    /\ replaced' = (self_chunks # <<>>)
    /\ UNCHANGED <<query, top_k, method, search_query, results, rpc, calls, pvars, hvars, cvars>>

\* load_chunks: a chunks file is found and read (lines 47-52)
LoadChunks ==
    /\ rpc = "idle"
    /\ \E file \in Corpora : self_chunks' = file /\ loaded' = file
    /\ replaced' = (self_chunks # <<>>)
    /\ UNCHANGED <<query, top_k, method, search_query, results, rpc, calls, pvars, hvars, cvars>>

\* load_chunks: no chunks file is found (lines 42-44)
LoadChunksNoFile ==
    /\ rpc = "idle"
    /\ replaced' = FALSE
    /\ UNCHANGED <<self_chunks, query, top_k, method, search_query, results, rpc, calls,
                   loaded, pvars, hvars, cvars>>

\* retrieve(q, k, m)
DoRetrieve ==
    /\ rpc = "idle"
    /\ \E q \in Queries, k \in 1..MaxTopK, m \in Methods :
          /\ query' = q /\ top_k' = k /\ method' = m
          /\ search_query' = IF self_chunks = <<>> THEN "" ELSE TranslateQuery(q)
          /\ results' = Retrieve(self_chunks, q, k, m)
    /\ rpc' = "returned"
    /\ replaced' = FALSE
    /\ UNCHANGED <<self_chunks, calls, loaded, pvars, hvars, cvars>>

\* the caller takes the result
TakeResults ==
    /\ rpc = "returned"
    /\ rpc' = "idle"
    /\ query' = "" /\ top_k' = 5 /\ method' = "keyword"
    /\ search_query' = "" /\ results' = <<>>
    /\ UNCHANGED <<self_chunks, calls, loaded, replaced, pvars, hvars, cvars>>

\* The callers that share one retriever (the request handlers of the API).
Callers == {"c1", "c2"}

\* a caller that is not in retrieve
IdleCall ==
    [pc |-> "idle", query |-> "", top_k |-> 5, search_query |-> "",
     i |-> 0, scored_chunks |-> <<>>, result |-> <<>>]

\* the scoring of chunk i writes the score into the corpus chunk itself
CorpusAfterScoring_InPlace(chunks, i, score) ==
    IF IsScored(score) THEN [chunks EXCEPT ![i] = Update(@, [score |-> score])]
    ELSE chunks

\* lines 141-154: what the scoring of chunk i leaves in self.chunks: the
\* record that is collected is a new dictionary {**chunk, 'score': score};
\* neither the list nor the chunk is assigned to
CorpusAfterScoring(chunks, i, score) == chunks

MaxShared == 2

\* the corpus the callers share, loaded before the first call
SharedCorpora ==
    { [i \in 1..Len(cs) |-> ChunkOf(cs[i], i)] : cs \in SeqsUpTo(Contents, MaxShared) }

SharedQueries == { "Ganoderma immune", "aba ab" }

\* retrieve, lines 71-80: the empty corpus is answered at once; otherwise the
\* query is translated and _keyword_retrieval starts
BeginRetrieve(c) ==
    /\ calls[c].pc = "idle"
    /\ \E q \in SharedQueries, k \in 1..MaxTopK :
          calls' = [calls EXCEPT ![c] =
                      IF self_chunks = <<>>
                      THEN [IdleCall EXCEPT !.pc = "returned", !.query = q, !.top_k = k]
                      ELSE [IdleCall EXCEPT !.pc = "score", !.query = q, !.top_k = k,
                                            !.search_query = TranslateQuery(q), !.i = 1]]
    /\ UNCHANGED <<self_chunks, query, top_k, method, search_query, results, rpc, loaded, replaced, pvars, hvars, cvars>>

\* _keyword_retrieval, one iteration of `for chunk in self.chunks` (lines 141-154)
ScoreNext(c) ==
    /\ calls[c].pc = "score"
    /\ calls[c].i <= Len(self_chunks)
    /\ LET chunk == self_chunks[calls[c].i]
           score == ChunkScore(chunk, calls[c].search_query)
       IN  /\ calls' = [calls EXCEPT
                          ![c].scored_chunks =
                              IF IsScored(score) THEN Append(@, Update(chunk, [score |-> score]))
                              ELSE @,
                          ![c].i = @ + 1]
           /\ self_chunks' = CorpusAfterScoring(self_chunks, calls[c].i, score)
    /\ UNCHANGED <<query, top_k, method, search_query, results, rpc, loaded, replaced, pvars, hvars, cvars>>

\* _keyword_retrieval, lines 157-163: sort, cut, return
FinishRetrieve(c) ==
    /\ calls[c].pc = "score"
    /\ calls[c].i > Len(self_chunks)
    /\ calls' = [calls EXCEPT
                   ![c].result = TopSlice(SortByScore(<<>>, calls[c].scored_chunks),
                                          calls[c].top_k),
                   ![c].pc = "returned"]
    /\ UNCHANGED <<self_chunks, query, top_k, method, search_query, results, rpc, loaded, replaced, pvars, hvars, cvars>>

SharedNext ==
    \/ \E c \in Callers : BeginRetrieve(c)
    \/ \E c \in Callers : ScoreNext(c)
    \/ \E c \in Callers : FinishRetrieve(c)

RNext ==
    \/ LoadChunks
    \/ LoadChunksNoFile
    \/ DoRetrieve
    \/ TakeResults

(***************************************************************************)
(* Specifications: one per component, the other two at rest.               *)
(***************************************************************************)
PIdle == PInit /\ ppc = "scan"

CIdle ==
    /\ self_cfg = [chunk_size |-> 1000, chunk_overlap |-> 200, min_chunk_size |-> 100]
    /\ text = "" /\ arg_sections = <<>> /\ sentences = <<>> /\ pos = 0
    /\ cc = CreateInit /\ metadata = NoMetadata /\ chunk_dicts = <<>>
    /\ cpc = "idle"

RIdle ==
    /\ self_chunks = <<>>
    /\ query = "" /\ top_k = 5 /\ method = "keyword" /\ search_query = ""
    /\ results = <<>>
    /\ rpc = "idle"
    /\ calls = [c \in Callers |-> IdleCall]
    /\ loaded = self_chunks /\ replaced = FALSE

InitParse == PInit /\ HIdle /\ CIdle /\ RIdle

InitHeading == PIdle /\ HInit /\ CIdle /\ RIdle

SpecHeading == InitHeading /\ [][HNext]_vars

SpecParse == InitParse /\ [][PNext]_vars

\* The processing pipeline (scripts/test_pdf_processing.py): the structure
\* that parse_pdf returns is chunked by a TextChunker(chunk_size=1000,
\* chunk_overlap=200), whose min_chunk_size is the default.
FileMetadata == [file_name |-> "paper.pdf", file_path |-> "data/pdfs/paper.pdf"]

ChunkStructure ==
    /\ ppc = "done" /\ cpc = "idle" /\ sections # <<>>
    /\ arg_sections' = sections
    /\ metadata' = FileMetadata
    /\ chunk_dicts' = ChunkBySections(sections, FileMetadata, self_cfg)
    /\ cpc' = "done_sections"
    /\ UNCHANGED <<self_cfg, text, sentences, pos, cc, pvars, hvars, rvars>>

IngestNext ==
    \/ PNext
    \/ ChunkStructure

SpecIngest == InitParse /\ [][IngestNext]_vars

InitChunk == PIdle /\ HIdle /\ CInit /\ RIdle

SpecChunk == InitChunk /\ [][CNext]_vars

InitRetrieve == PIdle /\ HIdle /\ CIdle /\ RIdle

SpecRetrieve == InitRetrieve /\ [][RNext]_vars

\* Several callers use one retriever whose corpus was loaded before.
InitShared ==
    /\ PIdle /\ HIdle /\ CIdle
    /\ self_chunks \in SharedCorpora
    /\ query = "" /\ top_k = 5 /\ method = "keyword" /\ search_query = ""
    /\ results = <<>>
    /\ rpc = "idle"
    /\ calls = [c \in Callers |-> IdleCall]
    /\ loaded = self_chunks /\ replaced = FALSE

SpecShared == InitShared /\ [][SharedNext]_vars

(***************************************************************************)
(* Properties of PDFParser._extract_structure                              *)
(***************************************************************************)
\* the sections built so far, the open one last
Kept == IF ppc = "done" THEN sections ELSE sections \o current_section

\* C1: once a heading that matches the references pattern has been met,
\* extraction is over: no later line of the document (same block, later
\* block or later page) becomes a section title or is added to a section's
\* content, so the sections built so far never change again.
C1_ReferencesTerminate == [][seenRefs => Kept' = Kept]_vars

(***************************************************************************)
(* Properties of TextChunker                                               *)
(***************************************************************************)
\* _create_chunks has returned
Flushed == cpc \in {"wrap", "done"}

IsKept(b) == b.kept

\* the buffers that became chunks, in order
KeptBufs == SelectSeq(cc.closed, IsKept)

\* the sentences at the positions ix
SentencesAt(ix) == [j \in 1..Len(ix) |-> sentences[ix[j]]]

\* the chunks returned are the kept buffers, each the single-space join of
\* its sentences
ChunksAreKeptBufs ==
    /\ Len(cc.chunks) = Len(KeptBufs)
    /\ \A c \in 1..Len(KeptBufs) :
          cc.chunks[c] = Join(SentencesAt(KeptBufs[c].ix), " ")

InChunk(k) == \E c \in 1..Len(KeptBufs) : k \in Range(KeptBufs[c].ix)

InBuffer(k, b) == k \in Range(cc.closed[b].ix)

\* a sentence that a buffer shares with an earlier buffer is one of the
\* sentences the buffer was seeded with, and those are the last sentences of
\* the buffer closed just before it
RepeatsOnlyInOverlap ==
    \A b \in 1..Len(cc.closed) :
        LET buf == cc.closed[b] IN
        /\ buf.seed <= Len(buf.ix)
        /\ IF b = 1 THEN buf.seed = 0
           ELSE /\ buf.seed <= Len(cc.closed[b - 1].ix)
                /\ SubSeq(buf.ix, 1, buf.seed) = LastN(cc.closed[b - 1].ix, buf.seed)
        /\ \A j \in 1..Len(buf.ix) :
              (\E a \in 1..(b - 1) : InBuffer(buf.ix[j], a)) => j <= buf.seed

\* C2 as stated: every sentence of the splitter is in at least one chunk,
\* and is in more than one chunk only through the overlap.
C2_EverySentenceInAChunk ==
    Flushed =>
        /\ \A k \in 1..Len(sentences) : InChunk(k)
        /\ RepeatsOnlyInOverlap

\* C2 as amended: every sentence is in at least one chunk unless every
\* buffer that held it was dropped for being shorter than min_chunk_size
\* (which cannot happen when min_chunk_size <= 1), and a sentence is in more
\* than one chunk only through the overlap.
C2_CoverageUpToDroppedBuffers ==
    Flushed =>
        /\ ChunksAreKeptBufs
        /\ \A k \in 1..Len(sentences) :
              \/ InChunk(k)
              \/ /\ \E b \in 1..Len(cc.closed) : InBuffer(k, b)
                 /\ \A b \in 1..Len(cc.closed) :
                       InBuffer(k, b) =>
                          /\ ~cc.closed[b].kept
                          /\ Len(Join(SentencesAt(cc.closed[b].ix), " "))
                                < self_cfg.min_chunk_size
        /\ (self_cfg.min_chunk_size <= 1 => \A k \in 1..Len(sentences) : InChunk(k))
        /\ RepeatsOnlyInOverlap

\* a run in which one buffer was dropped, another sentence got into two
\* chunks through the overlap
C2_Witness ==
    /\ Flushed
    /\ \E b \in 1..Len(cc.closed) : ~cc.closed[b].kept
    /\ \E c \in 1..(Len(KeptBufs) - 1) :
          Range(KeptBufs[c].ix) \cap Range(KeptBufs[c + 1].ix) # {}

\* the sentences of the later buffer that the earlier one holds too
Shared(b1, b2) == SelectSeq(b2.ix, LAMBDA k : k \in Range(b1.ix))

\* C3: two adjacent chunks share sentences whose lengths sum to at most
\* chunk_overlap.
C3_OverlapBound ==
    Flushed =>
        \A c \in 1..(Len(KeptBufs) - 1) :
            SumLen(SentencesAt(Shared(KeptBufs[c], KeptBufs[c + 1])))
                <= self_cfg.chunk_overlap

\* two adjacent chunks that share two sentences
C3_Witness ==
    /\ Flushed
    /\ \E c \in 1..(Len(KeptBufs) - 1) :
          Len(Shared(KeptBufs[c], KeptBufs[c + 1])) >= 2

IndexOk(ds, i) == ds[i].chunk_index = i - 1
TotalOk(ds, i) == ds[i].total_chunks = Len(ds)

\* C4 as stated: whatever the caller's metadata, chunk_text and
\* chunk_by_sections number their chunks 0..N-1 and give each total_chunks = N.
C4_IndexDensity ==
    cpc \in {"done", "done_sections"} =>
        \A i \in 1..Len(chunk_dicts) : IndexOk(chunk_dicts, i) /\ TotalOk(chunk_dicts, i)

\* C4 as amended: chunk_by_sections does so whatever the metadata; chunk_text
\* does so for chunk_index unless the metadata defines chunk_index, and for
\* total_chunks unless the metadata defines total_chunks.
C4_IndexDensityUnlessOverridden ==
    /\ cpc = "done_sections" =>
          \A i \in 1..Len(chunk_dicts) :
              IndexOk(chunk_dicts, i) /\ TotalOk(chunk_dicts, i)
    /\ cpc = "done" =>
          \A i \in 1..Len(chunk_dicts) :
              /\ "chunk_index" \notin DOMAIN metadata => IndexOk(chunk_dicts, i)
              /\ "total_chunks" \notin DOMAIN metadata => TotalOk(chunk_dicts, i)

\* chunk_by_sections renumbers three chunks although the metadata defines
\* chunk_index
C4_Witness ==
    /\ cpc = "done_sections"
    /\ "chunk_index" \in DOMAIN metadata
    /\ Len(chunk_dicts) >= 3

\* C5 as stated: a chunk is at most chunk_size long unless it is one single
\* sentence longer than chunk_size.
C5_SizeBound ==
    Flushed =>
        \A c \in 1..Len(cc.chunks) :
            \/ Len(cc.chunks[c]) <= self_cfg.chunk_size
            \/ /\ Len(KeptBufs[c].ix) = 1
               /\ Len(sentences[KeptBufs[c].ix[1]]) > self_cfg.chunk_size

\* C5 as amended: the sentences of a chunk (its content without the spaces
\* that join them) sum to at most chunk_size, unless the chunk is the overlap
\* carried from the buffer before it (possibly nothing) plus one sentence.
C5_SizeBoundOnSentences ==
    Flushed =>
        /\ Len(cc.chunks) = Len(KeptBufs)
        /\ \A c \in 1..Len(cc.chunks) :
              LET b == KeptBufs[c] IN
              /\ Len(cc.chunks[c]) = SumLen(SentencesAt(b.ix)) + Len(b.ix) - 1
              /\ \/ SumLen(SentencesAt(b.ix)) <= self_cfg.chunk_size
                 \/ Len(b.ix) = b.seed + 1

\* a chunk of overlap plus one sentence that is longer than chunk_size, and
\* a chunk whose sentences fit but whose content, with the spaces, does not
C5_Witness ==
    /\ Flushed
    /\ \E c \in 1..Len(cc.chunks) :
          /\ KeptBufs[c].seed >= 1
          /\ SumLen(SentencesAt(KeptBufs[c].ix)) > self_cfg.chunk_size
    /\ \E c \in 1..Len(cc.chunks) :
          /\ SumLen(SentencesAt(KeptBufs[c].ix)) <= self_cfg.chunk_size
          /\ Len(cc.chunks[c]) > self_cfg.chunk_size

(***************************************************************************)
(* Properties of SimpleRetriever                                           *)
(***************************************************************************)
\* retrieve has returned from _keyword_retrieval
Retrieved == rpc = "returned" /\ method \in {"keyword", "vector"}

\* the corpus positions of the chunks with a positive score
Positive == {i \in 1..Len(self_chunks) : ChunkScore(self_chunks[i], search_query) > 0}

\* the corpus position of a returned record
PosOf(r) == r.chunk_index + 1

\* C6: retrieve returns exactly min(top_k, M) records, M the number of corpus
\* chunks with a positive score, in non-increasing order of score.
C6_LengthAndOrder ==
    Retrieved =>
        /\ Len(results) = IF top_k < Cardinality(Positive) THEN top_k
                          ELSE Cardinality(Positive)
        /\ \A i \in 1..(Len(results) - 1) : results[i].score >= results[i + 1].score

\* more chunks score than are asked for, and the records returned differ in
\* score
C6_Witness ==
    /\ Retrieved
    /\ Cardinality(Positive) > top_k
    /\ Len(results) >= 2
    /\ results[1].score > results[2].score

\* the tokens of s: its maximal runs of characters that are not whitespace
TokensOf(s) ==
    LET starts == {i \in 1..Len(s) :
                     ~IsSpace(Ch(s, i)) /\ (i = 1 \/ IsSpace(Ch(s, i - 1)))}
        ends == {j \in 1..Len(s) :
                   ~IsSpace(Ch(s, j)) /\ (j = Len(s) \/ IsSpace(Ch(s, j + 1)))}
    IN  { SubSeq(s, i, CHOOSE j \in ends : j >= i /\ \A e \in ends : e >= i => j <= e) :
            i \in starts }

\* the tokens of the lower-cased expanded query that scoring retains
RetainedTokens == {t \in TokensOf(Lower(search_query)) : Len(t) >= 3}

\* C7: no record of score 0 is returned, every score is at least 1, and when
\* no chunk contains a retained token the result is the empty sequence.
C7_NoZeroScore ==
    rpc = "returned" =>
        /\ \A i \in 1..Len(results) : results[i].score >= 1
        /\ (\A c \in 1..Len(self_chunks), t \in RetainedTokens :
               ~Contains(Lower(Get(self_chunks[c], "content", "")), t))
              => results = <<>>

\* a loaded corpus of which one chunk is returned and another, of score 0,
\* is not, although top_k would allow it
C7_Witness ==
    /\ Retrieved
    /\ Len(self_chunks) >= 2
    /\ Len(results) >= 1
    /\ Len(results) < top_k

\* the places where t occurs in s
Occurrences(s, t) == {i \in 1..Len(s) : MatchAt(s, i, t)}

\* the number of occurrences of t in s, counted as str.count counts them:
\* the most occurrences that can be taken without two of them overlapping
OccurrenceCount(s, t) ==
    LET disjoint == { P \in SUBSET Occurrences(s, t) :
                        \A a, b \in P : a < b => a + Len(t) <= b }
        sizes == {Cardinality(P) : P \in disjoint}
    IN  CHOOSE n \in sizes : \A m \in sizes : m <= n

RECURSIVE SumOfCounts(_, _)
SumOfCounts(s, T) ==
    IF T = {} THEN 0
    ELSE LET t == CHOOSE x \in T : TRUE
         IN  OccurrenceCount(s, t) + SumOfCounts(s, T \ {t})

\* the score the claim gives to a chunk
ClaimedScore(chunk) ==
    SumOfCounts(Lower(Get(chunk, "content", "")), RetainedTokens)

\* C8: the score of a chunk is the sum, over the tokens of the lower-cased
\* expanded query that have at least 3 characters, of the number of
\* occurrences of the token in the chunk's lower-cased content; shorter
\* tokens add nothing.  It is the score every returned record carries, and
\* the score that decides whether a chunk is returned.
C8_ScoreIsSumOfCounts ==
    Retrieved =>
        /\ \A i \in 1..Len(results) :
              /\ PosOf(results[i]) \in 1..Len(self_chunks)
              /\ results[i] = Update(self_chunks[PosOf(results[i])],
                                     [score |-> ClaimedScore(self_chunks[PosOf(results[i])])])
        /\ \A c \in 1..Len(self_chunks) :
              ChunkScore(self_chunks[c], search_query) = ClaimedScore(self_chunks[c])

\* a record whose score counts one token twice in the same chunk, for a
\* query that also has a token of fewer than 3 characters
C8_Witness ==
    /\ Retrieved
    /\ \E t \in TokensOf(Lower(search_query)) : Len(t) < 3
    /\ \E i \in 1..Len(results) :
          /\ results[i].score >= 3
          /\ \E t \in RetainedTokens : OccurrenceCount(Lower(results[i].content), t) >= 2

\* C9: records of equal score come in corpus order, and a chunk left out by
\* the top_k cut-off never has the score of a returned record that stands
\* later in the corpus.
C9_StableTies ==
    Retrieved =>
        /\ \A i, j \in 1..Len(results) :
              (i < j /\ results[i].score = results[j].score)
                 => PosOf(results[i]) < PosOf(results[j])
        /\ \A c \in Positive, i \in 1..Len(results) :
              (c \notin {PosOf(results[j]) : j \in 1..Len(results)}
               /\ ChunkScore(self_chunks[c], search_query) = results[i].score)
                 => PosOf(results[i]) < c

\* three chunks of the same score, of which top_k = 2 are returned
C9_Witness ==
    /\ Retrieved
    /\ Len(results) = 2
    /\ results[1].score = results[2].score
    /\ \E c \in Positive :
          /\ c \notin {PosOf(results[j]) : j \in 1..Len(results)}
          /\ ChunkScore(self_chunks[c], search_query) = results[2].score

RECURSIVE ExpansionPrefix(_, _)
\* the expansions of the keys among the first n of the table that occur in
\* q, in table order, each followed by one space
ExpansionPrefix(q, n) ==
    IF n = 0 THEN ""
    ELSE ExpansionPrefix(q, n - 1)
         \o (IF \E i \in 1..Len(q) : MatchAt(q, i, KeywordsMap[n].key)
             THEN KeywordsMap[n].value \o " " ELSE "")

\* C10: the translated query is the expansions of the matching keys in table
\* order, joined by single spaces, then a space and the original query; it is
\* the query itself when no key matches.
C10_QueryExpansion ==
    (rpc = "returned" /\ self_chunks # <<>>) =>
        /\ search_query = ExpansionPrefix(query, Len(KeywordsMap)) \o query
        /\ (\A n \in 1..Len(KeywordsMap) : ~Contains(query, KeywordsMap[n].key))
              => search_query = query

\* a query in which two keys of the table occur
C10_Witness ==
    /\ rpc = "returned"
    /\ self_chunks # <<>>
    /\ Cardinality({n \in 1..Len(KeywordsMap) : Contains(query, KeywordsMap[n].key)}) >= 2
    /\ search_query = "Ganoderma lucidum immune immunomodulatory " \o query

(***************************************************************************)
(* Properties of the second group of claims                                *)
(***************************************************************************)
\* the lines of the example document, as the line loop classifies them
ExampleDoc ==
    << [text |-> "Abstract", kind |-> "heading"],
       [text |-> "This study examines Ganoderma.", kind |-> "body"],
       [text |-> "Methods", kind |-> "heading"],
       [text |-> "We used water extraction.", kind |-> "body"] >>

\* C12: the document made of the heading "Abstract", the body line "This
\* study examines Ganoderma.", the heading "Methods" and the body line "We
\* used water extraction." yields two sections titled "Abstract" and
\* "Methods", and chunk_by_sections on them with chunk_size 1000 and the
\* other parameters at their defaults yields exactly two chunks, of section
\* "Abstract" and of section "Methods".
C12_EndToEndExample ==
    (ppc = "done" /\ doc = ExampleDoc) =>
        /\ Len(sections) = 2
        /\ sections[1].title = "Abstract" /\ sections[2].title = "Methods"
        /\ cpc = "done_sections" =>
              /\ Len(chunk_dicts) = 2
              /\ chunk_dicts[1].section = "Abstract"
              /\ chunk_dicts[2].section = "Methods"

\* C11: retrieve on a retriever whose corpus is empty (never loaded, no
\* chunks file, or an empty chunks file), with any query, any top_k and any
\* method, returns the empty sequence.
C11_EmptySafety ==
    (rpc = "returned" /\ self_chunks = <<>>) => results = <<>>

C11_Witness ==
    /\ rpc = "returned" /\ self_chunks = <<>>
    /\ query = "Ganoderma immune" /\ top_k = 2 /\ method = "keyword"
    /\ results = <<>>

\* C13: re-chunking is idempotent: for every chunk that chunk_text returns
\* whose content is at most chunk_size long, chunk_text on that content with
\* the same configuration returns exactly one chunk, with the same content.
C13_Idempotence ==
    (cpc = "done" /\ "content" \notin DOMAIN metadata) =>
        \A i \in 1..Len(chunk_dicts) :
            Len(chunk_dicts[i].content) <= self_cfg.chunk_size =>
                LET again == ChunkText(chunk_dicts[i].content, NoMetadata, self_cfg)
                IN  /\ Len(again) = 1
                    /\ again[1].content = chunk_dicts[i].content

C13_Witness ==
    /\ cpc = "done" /\ Len(chunk_dicts) >= 2
    /\ \E i \in 1..Len(chunk_dicts) :
          /\ chunk_dicts[i].content = "A. A."
          /\ Len(chunk_dicts[i].content) <= self_cfg.chunk_size
          /\ Len(ChunkText(chunk_dicts[i].content, NoMetadata, self_cfg)) = 1

\* the corpus positions of the returned records
ReturnedPositions == {PosOf(results[i]) : i \in 1..Len(results)}

\* the place in the result of the record of corpus position c
PlaceOf(c) == CHOOSE i \in 1..Len(results) : PosOf(results[i]) = c

\* C14: scoring is monotone: a chunk that contains every retained query
\* token at least as many times as another chunk scores at least as much;
\* and when a chunk scores strictly more than a returned chunk, it is
\* returned too, at an earlier position.
C14_Monotonicity ==
    Retrieved =>
        LET N == 1..Len(self_chunks)
            T == RetainedTokens
            lowered == [c \in N |-> Lower(Get(self_chunks[c], "content", ""))]
            returned == ReturnedPositions
        IN  \A count \in {[c \in N |-> [t \in T |-> OccurrenceCount(lowered[c], t)]]},
               score \in {[c \in N |-> ChunkScore(self_chunks[c], search_query)]} :
                \A a, b \in N :
                    /\ (\A t \in T : count[a][t] >= count[b][t]) => score[a] >= score[b]
                    /\ (score[a] > score[b] /\ b \in returned)
                          => (a \in returned /\ PlaceOf(a) < PlaceOf(b))

\* for the query "Ganoderma immune", the chunk with "Ganoderma" twice and
\* "immune" once stands later in the corpus than the chunk with "Ganoderma"
\* once, and is returned before it
C14_Witness ==
    /\ Retrieved /\ query = "Ganoderma immune"
    /\ Len(results) = 2
    /\ results[1].content = "Ganoderma lucidum immune Ganoderma"
    /\ results[2].content = "Ganoderma tea"
    /\ PosOf(results[2]) < PosOf(results[1])
    /\ results[1].score = 3 /\ results[2].score = 1

\* C15: a TextChunker with chunk_size <= 0 is refused at construction, so
\* no chunker that has chunked a text or a list of sections has a
\* chunk_size <= 0.
C15_InvalidConfigRejected ==
    cpc \in {"done", "done_sections"} => self_cfg.chunk_size > 0

\* the chunks that chunk_text makes of a section's text
FromSection(sec) ==
    ChunkText(sec.title \o "\n\n" \o Join(sec.content, " "), NoMetadata, self_cfg)

RECURSIVE ChunksBefore(_, _)
\* the number of chunks made of the sections before the i-th, `per` giving
\* the chunks made of each section
ChunksBefore(per, i) ==
    IF i <= 1 THEN 0
    ELSE ChunksBefore(per, i - 1) + Len(per[i - 1])

\* C16: when the caller's metadata defines neither section nor page, the
\* chunks chunk_by_sections returns are the chunks of section 1, then those
\* of section 2, and so on; each carries the title and the page of its
\* section; and the index each had within its section is replaced by its
\* index in the whole sequence.
C16_SectionsInOrder ==
    (cpc = "done_sections" /\ "section" \notin DOMAIN metadata
                           /\ "page" \notin DOMAIN metadata) =>
        \A per \in {[i \in 1..Len(arg_sections) |-> FromSection(arg_sections[i])]} :
            /\ Len(chunk_dicts) = ChunksBefore(per, Len(arg_sections) + 1)
            /\ \A i \in 1..Len(arg_sections) :
                  \A j \in 1..Len(per[i]) :
                      LET c == chunk_dicts[ChunksBefore(per, i) + j] IN
                      /\ c.section = arg_sections[i].title
                      /\ c.page = arg_sections[i].page
                      /\ "content" \notin DOMAIN metadata => c.content = per[i][j].content
                      /\ c.chunk_index = ChunksBefore(per, i) + j - 1
                      /\ c.total_chunks = Len(chunk_dicts)

\* two sections of different titles and pages, the first of which gives two
\* chunks or more and the second one or more
C16_Witness ==
    /\ cpc = "done_sections" /\ "section" \notin DOMAIN metadata
    /\ Len(arg_sections) = 2
    /\ arg_sections[1].title # arg_sections[2].title
    /\ arg_sections[1].page # arg_sections[2].page
    /\ Len(FromSection(arg_sections[1])) >= 2
    /\ Len(FromSection(arg_sections[2])) >= 1
    /\ chunk_dicts[Len(chunk_dicts)].section = arg_sections[2].title
    /\ chunk_dicts[Len(chunk_dicts)].chunk_index >= 2

\* the fields chunk_text generates for its i-th chunk
Generated(i) ==
    [chunk_index |-> i - 1,
     total_chunks |-> Len(cc.chunks),
     content |-> cc.chunks[i],
     char_count |-> Len(cc.chunks[i]),
     word_count |-> Len(Split(cc.chunks[i]))]

\* C17: in the chunks chunk_text returns, a key that the caller's metadata
\* defines holds the caller's value, also when it is one of chunk_index,
\* total_chunks, content, char_count and word_count; every other key holds
\* the generated value.
C17_CallerMetadataWins ==
    cpc = "done" =>
        /\ Len(chunk_dicts) = Len(cc.chunks)
        /\ \A i \in 1..Len(chunk_dicts) :
              \A generated \in {Generated(i)} :
                  /\ DOMAIN chunk_dicts[i] = DOMAIN generated \cup DOMAIN metadata
                  /\ \A key \in DOMAIN chunk_dicts[i] :
                        chunk_dicts[i][key] = IF key \in DOMAIN metadata THEN metadata[key]
                                              ELSE generated[key]

\* a chunk whose content is the caller's, not the text's, and whose
\* char_count is still the generated one
C17_Witness ==
    /\ cpc = "done" /\ Len(chunk_dicts) >= 2
    /\ "content" \in DOMAIN metadata
    /\ chunk_dicts[2].content = metadata.content
    /\ chunk_dicts[2].content # cc.chunks[2]
    /\ chunk_dicts[2].char_count = Len(cc.chunks[2])
    /\ chunk_dicts[2].chunk_index = 1

\* every section built so far holds the texts of the lines of the document
\* that `origin` records for it: its title line and its content lines
SectionsFromOrigin ==
    /\ Len(Kept) = Len(origin)
    /\ \A k \in 1..Len(Kept) :
          /\ origin[k].title \in 1..Len(doc)
          /\ Kept[k].title = doc[origin[k].title].text
          /\ Len(Kept[k].content) = Len(origin[k].content)
          /\ \A j \in 1..Len(Kept[k].content) :
                /\ origin[k].content[j] \in 1..Len(doc)
                /\ Kept[k].content[j] = doc[origin[k].content[j]].text

\* the positions of the lines classified as headings, and of those among
\* them that do not match the references pattern
HeadingPositions == {p \in 1..Len(doc) : doc[p].kind \in {"heading", "refs"}}
SectionHeadingPositions == {p \in 1..Len(doc) : doc[p].kind = "heading"}

\* the positions of the lines that section k holds
PositionsOf(k) ==
    {origin[k].title} \cup {origin[k].content[j] : j \in 1..Len(origin[k].content)}

\* C18: no line that precedes the first line classified as a heading is the
\* title of a section or part of the content of a section, and a document
\* without a heading gives no section.
C18_NothingBeforeFirstHeading ==
    /\ SectionsFromOrigin
    /\ \A k \in 1..Len(origin) :
          \A p \in PositionsOf(k) : \E h \in HeadingPositions : h <= p
    /\ HeadingPositions = {} => Kept = <<>>

\* a body line comes before the first heading, the same text comes again
\* after it, and the section holds the second one only
C18_Witness ==
    /\ ppc = "done" /\ Len(doc) = 3
    /\ doc[1].kind = "body" /\ doc[2].kind = "heading" /\ doc[3].kind = "body"
    /\ doc[1].text = doc[3].text
    /\ Len(sections) = 1
    /\ sections[1].content = <<doc[3].text>>
    /\ origin[1].content = <<3>>

\* C19: the sections come in the order of their heading lines, one for each
\* heading that does not match the references pattern; the content of a
\* section is in the order of the document; and every body line that is
\* kept is in the section opened by the nearest heading before it that does
\* not match the references pattern.
C19_OrderPreserved ==
    /\ SectionsFromOrigin
    /\ {origin[k].title : k \in 1..Len(origin)} = SectionHeadingPositions
    /\ \A k \in 1..(Len(origin) - 1) : origin[k].title < origin[k + 1].title
    /\ \A k \in 1..Len(origin) :
          /\ \A j \in 1..(Len(origin[k].content) - 1) :
                origin[k].content[j] < origin[k].content[j + 1]
          /\ \A j \in 1..Len(origin[k].content) :
                LET p == origin[k].content[j] IN
                /\ doc[p].kind = "body"
                /\ origin[k].title < p
                /\ \A h \in SectionHeadingPositions : h < p => h <= origin[k].title

\* two sections, the first of which holds the line that follows its heading
C19_Witness ==
    /\ ppc = "done" /\ Len(doc) = 4
    /\ Len(sections) = 2
    /\ sections[1].title # sections[2].title
    /\ origin[1] = [title |-> 1, content |-> <<2>>]
    /\ origin[2] = [title |-> 3, content |-> <<4>>]
    /\ sections[1].content # sections[2].content

\* C20: retrieve only reads the corpus: no step of any call changes
\* self.chunks (same chunks, same order, no score field added), and so
\* every call that runs while other calls run returns what it returns with
\* the same arguments when it runs alone.
C20_RetrieveReadOnly ==
    /\ [][self_chunks' = self_chunks]_vars
    /\ [](\A i \in 1..Len(self_chunks) : "score" \notin DOMAIN self_chunks[i])
    /\ [](\A c \in Callers :
             calls[c].pc = "returned" =>
                calls[c].result =
                    Retrieve(self_chunks, calls[c].query, calls[c].top_k, "keyword"))

\* two calls with different queries are both in the middle of the scoring
\* loop, each with a record collected
C20_Witness ==
    /\ Len(self_chunks) >= 2
    /\ calls["c1"].pc = "score" /\ calls["c2"].pc = "score"
    /\ calls["c1"].i = 2 /\ calls["c2"].i = 2
    /\ calls["c1"].query # calls["c2"].query
    /\ calls["c1"].scored_chunks # <<>> /\ calls["c2"].scored_chunks # <<>>

(***************************************************************************)
(* Properties of the third group of claims                                 *)
(***************************************************************************)
\* C21: every chunk chunk_text returns has a content at least
\* min_chunk_size long, and a buffer is kept exactly when its text is at
\* least min_chunk_size long, the buffer flushed at the end like the buffers
\* closed in the middle of the text.
C21_MinimumSize ==
    cpc = "done" =>
        /\ "content" \notin DOMAIN metadata =>
              \A i \in 1..Len(chunk_dicts) :
                  Len(chunk_dicts[i].content) >= self_cfg.min_chunk_size
        /\ \A c \in 1..Len(cc.chunks) : Len(cc.chunks[c]) >= self_cfg.min_chunk_size
        /\ \A b \in 1..Len(cc.closed) :
              cc.closed[b].kept <=>
                 Len(Join(SentencesAt(cc.closed[b].ix), " ")) >= self_cfg.min_chunk_size

\* a buffer closed in the middle is kept and the buffer flushed at the end,
\* shorter than min_chunk_size, is dropped
C21_Witness ==
    /\ cpc = "done" /\ "content" \notin DOMAIN metadata
    /\ Len(cc.closed) >= 2
    /\ cc.closed[1].kept
    /\ ~cc.closed[Len(cc.closed)].kept
    /\ Len(chunk_dicts) = Len(cc.closed) - 1

\* C22: the content of every chunk chunk_text returns is the single-space
\* join of a run of consecutive whole sentences of the input, in input
\* order: split again it gives those sentences, so what two chunks share is
\* whole sentences; and the chunks come in the order of their last
\* sentences.
C22_WholeSentences ==
    Flushed =>
        /\ ChunksAreKeptBufs
        /\ \A c \in 1..Len(KeptBufs) :
              LET ix == KeptBufs[c].ix IN
              /\ ix # <<>>
              /\ \A j \in 1..Len(ix) : ix[j] \in 1..Len(sentences)
              /\ \A j \in 1..(Len(ix) - 1) : ix[j + 1] = ix[j] + 1
              /\ SplitSentences(cc.chunks[c]) = SentencesAt(ix)
        /\ \A c \in 1..(Len(KeptBufs) - 1) :
              KeptBufs[c].ix[Len(KeptBufs[c].ix)]
                 < KeptBufs[c + 1].ix[Len(KeptBufs[c + 1].ix)]
        /\ (cpc = "done" /\ "content" \notin DOMAIN metadata) =>
              /\ Len(chunk_dicts) = Len(cc.chunks)
              /\ \A c \in 1..Len(chunk_dicts) : chunk_dicts[c].content = cc.chunks[c]

\* two chunks of two sentences each that share one sentence
C22_Witness ==
    /\ cpc = "done" /\ "content" \notin DOMAIN metadata
    /\ Len(KeptBufs) >= 2
    /\ Len(KeptBufs[1].ix) = 2
    /\ Len(KeptBufs[2].ix) = 2
    /\ KeptBufs[2].ix[1] = KeptBufs[1].ix[2]
    /\ chunk_dicts[2].content = Join(SentencesAt(KeptBufs[2].ix), " ")

\* C23: chunk_text on a text that is empty or made of whitespace only
\* returns the empty sequence, and chunk_by_sections on an empty list of
\* sections returns the empty sequence.
C23_EmptyInput ==
    /\ (cpc = "done" /\ \A i \in 1..Len(text) : IsSpace(Ch(text, i)))
          => chunk_dicts = <<>>
    /\ (cpc = "done_sections" /\ arg_sections = <<>>) => chunk_dicts = <<>>

\* chunk_text has returned for a text of whitespace, with a min_chunk_size
\* that drops nothing
C23_Witness ==
    /\ cpc = "done" /\ text = " \n"
    /\ self_cfg.min_chunk_size = 0
    /\ chunk_dicts = <<>>

\* the number of whitespace-delimited tokens of s: the places where a
\* character that is not whitespace begins the text or follows whitespace
TokenCount(s) ==
    Cardinality({i \in 1..Len(s) :
                    ~IsSpace(Ch(s, i)) /\ (i = 1 \/ IsSpace(Ch(s, i - 1)))})

\* C24: in every chunk that chunk_text or chunk_by_sections returns, when
\* the caller's metadata defines none of char_count, word_count and content,
\* char_count is the length of content and word_count is the number of
\* whitespace-delimited tokens of content.
C24_CountsMatchContent ==
    (cpc \in {"done", "done_sections"}
       /\ DOMAIN metadata \cap {"char_count", "word_count", "content"} = {}) =>
        \A i \in 1..Len(chunk_dicts) :
            /\ chunk_dicts[i].char_count = Len(chunk_dicts[i].content)
            /\ chunk_dicts[i].word_count = TokenCount(chunk_dicts[i].content)

\* a chunk of a section whose content holds the title, two line feeds and
\* a sentence: two tokens, no single space
C24_Witness ==
    /\ cpc = "done_sections"
    /\ DOMAIN metadata \cap {"char_count", "word_count", "content"} = {}
    /\ \E i \in 1..Len(chunk_dicts) :
          /\ chunk_dicts[i].content = "Abstract\n\nCde!"
          /\ chunk_dicts[i].char_count = 14
          /\ chunk_dicts[i].word_count = 2

\* t holds one of References, Reference, Bibliography, whatever the case of
\* its letters, or the localized variant, at some place
MatchesReferencesPattern(t) ==
    \/ \E w \in {"References", "Reference", "Bibliography"} :
          \E i \in 1..Len(t) :
              /\ i + Len(w) - 1 <= Len(t)
              /\ Lower(SubSeq(t, i, i + Len(w) - 1)) = Lower(w)
    \/ \E i \in 1..Len(t) :
          /\ i + Len(CJK.cankaowenxian) - 1 <= Len(t)
          /\ SubSeq(t, i, i + Len(CJK.cankaowenxian) - 1) = CJK.cankaowenxian

\* C25: every section _extract_structure builds has a title that is not
\* empty and does not match the references pattern.
C25_TitlesNotEmptyNotReferences ==
    \A k \in 1..Len(Kept) :
        /\ Kept[k].title # ""
        /\ ~MatchesReferencesPattern(Kept[k].title)

\* two sections are returned for a document in which a heading that holds
\* BIBLIOGRAPHY after a number stands between their headings
C25_Witness ==
    /\ ppc = "done" /\ Len(sections) = 2
    /\ \E p \in 1..Len(doc) :
          /\ doc[p].kind = "refs" /\ doc[p].text = "3. BIBLIOGRAPHY"
          /\ origin[1].title < p /\ p < origin[2].title


\* the buffer at positions ix starts as the buffer at positions prev was
\* closed: with the longest run of last sentences of prev whose lengths sum
\* to at most chunk_overlap, and then the sentence after the last one of prev
SeededFrom(prev, ix) ==
    \E n \in 0..Len(prev) :
        /\ Len(ix) >= n + 1
        /\ SubSeq(ix, 1, n) = SubSeq(prev, Len(prev) - n + 1, Len(prev))
        /\ ix[n + 1] = prev[Len(prev)] + 1
        /\ SumLen(SentencesAt(SubSeq(prev, Len(prev) - n + 1, Len(prev))))
               <= self_cfg.chunk_overlap
        /\ n < Len(prev) =>
               SumLen(SentencesAt(SubSeq(prev, Len(prev) - n, Len(prev))))
                   > self_cfg.chunk_overlap

\* C26: whenever _create_chunks closes a buffer, emitted or dropped, the
\* next buffer starts with the longest suffix of the closed buffer's
\* sentences whose summed length is at most chunk_overlap (none of them, or
\* all of them, at the extremes), followed by the sentence that triggered
\* the close.
C26_OverlapSeeding ==
    /\ \A b \in 2..Len(cc.closed) : SeededFrom(cc.closed[b - 1].ix, cc.closed[b].ix)
    /\ (cpc = "loop" /\ cc.closed # <<>>) =>
            SeededFrom(cc.closed[Len(cc.closed)].ix, cc.cur_ix)

\* a buffer dropped for being too short whose sentence fits the overlap and
\* opens the next buffer, before the sentence that closed it
C26_Witness ==
    /\ Flushed
    /\ \E b \in 2..Len(cc.closed) :
          /\ ~cc.closed[b - 1].kept
          /\ cc.closed[b].ix[1] = cc.closed[b - 1].ix[Len(cc.closed[b - 1].ix)]
          /\ Len(cc.closed[b].ix) >= 2


(***************************************************************************)
(* Properties of PDFParser._is_heading                                     *)
(***************************************************************************)
\* the text starts with one of the heading keywords, in any letter case
StartsWithKeyword(t) ==
    \E kw \in {"abstract", "introduction", "method", "methods", "result", "results",
                "discussion", "conclusion", "reference", "references"} :
        Len(t) >= Len(kw) /\ Lower(SubSeq(t, 1, Len(kw))) = kw

\* the text starts with a numbered-heading prefix: digits, a full stop or
\* none, whitespace, and then a letter
StartsWithNumber(t) ==
    LET digits == {d \in 1..Len(t) : \A i \in 1..d : Ch(t, i) \in DigitSet}
        nd == Cardinality(digits)
        after == IF nd + 1 <= Len(t) /\ Ch(t, nd + 1) = "." THEN nd + 2 ELSE nd + 1
        letter == RunEnd(t, after)
    IN  /\ nd >= 1
        /\ letter > after
        /\ letter <= Len(t)
        /\ Ch(t, letter) \in UpperSet \cup LowerSet

\* the classification as it is claimed, on the first span of the line
ClaimedHeading(line) ==
    /\ line.spans # <<>>
    /\ LET first == line.spans[1]
           t == Strip(first.text)
           bold == first.flags % (2 * BoldFlag) >= BoldFlag
           upper == /\ \A i \in 1..Len(t) : Ch(t, i) \notin LowerSet
                    /\ \E i \in 1..Len(t) : Ch(t, i) \in UpperSet
       IN  \/ bold /\ first.size > 12
           \/ first.size > 12 /\ Len(t) < 100
           \/ upper /\ Len(t) > 3
           \/ StartsWithKeyword(t)
           \/ StartsWithNumber(t)

\* C27: _is_heading returns true for a line exactly when (bold and font size
\* above 12) or (font size above 12 and text shorter than 100 characters) or
\* (text all upper-case and longer than 3 characters) or the text starts
\* with a heading keyword or a numbered-heading prefix, where font, flags and
\* text are those of the line's first span; a short large-font line is a
\* heading even when it is not bold.
C27_HeadingClassification ==
    hpc = "returned" => (hret <=> ClaimedHeading(hline))

\* a short line in a large font that is not bold, not upper-case and matches
\* no pattern is classified as a heading
C27_Witness ==
    /\ hpc = "returned"
    /\ hline = [spans |-> <<Span("Ganoderma lucidum", 13, 4)>>]
    /\ hret = TRUE


(***************************************************************************)
(* Properties of the occurrence count                                      *)
(***************************************************************************)
\* the lower-cased content of the chunk at corpus position c
LowerContent(c) == Lower(Get(self_chunks[c], "content", ""))

RECURSIVE SumOfStarts(_, _)
\* the sum over the tokens T of the number of places they start at in s
SumOfStarts(s, T) ==
    IF T = {} THEN 0
    ELSE LET t == CHOOSE x \in T : TRUE
         IN  Cardinality(Occurrences(s, t)) + SumOfStarts(s, T \ {t})

\* C28 as stated: the occurrence count used in scoring counts every position
\* at which the token occurs in the chunk's lower-cased content, overlapping
\* occurrences included ("aba" in "ababa" counts twice).
C28_CountsEveryStart ==
    Retrieved =>
        \A c \in 1..Len(self_chunks) :
            ChunkScore(self_chunks[c], search_query)
                = SumOfStarts(LowerContent(c), RetainedTokens)

\* C28 as amended: the occurrence count used in scoring is the number of
\* occurrences of the token in the chunk's lower-cased content that do not
\* overlap one another, taken from left to right ("aba" in "ababa" counts
\* once); it is the number of positions the token occurs at whenever no two
\* of its occurrences overlap, and never more than that.
C28_CountsDisjointOccurrences ==
    Retrieved =>
        \A c \in 1..Len(self_chunks) :
            \A s \in {LowerContent(c)} :
                /\ \A t \in RetainedTokens :
                      \A n \in {TermScore(s, t)} :
                          /\ n = OccurrenceCount(s, t)
                          /\ n <= Cardinality(Occurrences(s, t))
                          /\ (\A a, b \in Occurrences(s, t) : a < b => a + Len(t) <= b)
                                 => n = Cardinality(Occurrences(s, t))
                /\ ChunkScore(self_chunks[c], search_query) = SumOfCounts(s, RetainedTokens)

\* a record returned with score 1 for a token that occurs at two places of
\* its content, the second overlapping the first
C28_Witness ==
    /\ Retrieved
    /\ \E i \in 1..Len(results) :
          /\ results[i].score = 1
          /\ RetainedTokens = {"aba"}
          /\ Cardinality(Occurrences(Lower(results[i].content), "aba")) = 2


(***************************************************************************)
(* Repeated and reordered query words                                      *)
(***************************************************************************)
\* Queries made of the words of q: in reverse order, and with the last word
\* put in front once more, tabs between the words.
Variants(q) ==
    LET words == Split(q)
        n == Len(words)
    IN  IF n = 0 THEN {}
        ELSE { Join([i \in 1..n |-> words[n + 1 - i]], " "),
               Join(<<words[n]>> \o words, "\t") }

\* C29: the score of every chunk, and so the result of retrieve, is unchanged
\* when whitespace-separated words of the query are repeated or reordered:
\* each distinct retained token is counted once per chunk, however many
\* times it occurs in the expanded query.
C29_WordOrderAndRepeats ==
    rpc = "returned" =>
        \A terms \in {QueryTerms(TranslateQuery(query))} :
            \A v \in Variants(query) :
                /\ \A vterms \in {QueryTerms(TranslateQuery(v))} :
                      \A c \in 1..Len(self_chunks) :
                          \A content \in {LowerContent(c)} :
                              ScoreOf(content, vterms) = ScoreOf(content, terms)
                /\ Retrieve(self_chunks, v, top_k, method) = results

\* a query that holds one word twice, in two letter cases, and another word
\* once; two chunks are returned, the first for the repeated word, which
\* counts once, the second for the other word
C29_Witness ==
    /\ Retrieved
    /\ query = "immune  Immune tea"
    /\ Len(results) = 2
    /\ results[1].content = "IMMUNE ababa" /\ results[1].score = 1
    /\ results[2].content = "Ganoderma tea" /\ results[2].score = 1
    /\ "tea Immune immune" \in Variants(query)


(***************************************************************************)
(* Properties of SimpleRetriever.load_chunks                               *)
(***************************************************************************)
\* C30: after any sequence of load_chunks calls the corpus is what the most
\* recent load that found a file read from it, the empty list before any: a
\* load replaces the whole corpus and never appends to it, and a load that
\* finds no chunks file leaves the corpus as it was.
C30_CorpusIsLastFileLoaded ==
    /\ [](self_chunks = loaded)
    /\ [][self_chunks' # self_chunks => (rpc = "idle" /\ self_chunks' = loaded')]_vars
    /\ [][loaded' = loaded => self_chunks' = self_chunks]_vars

\* a file of one chunk has been loaded into a corpus that held chunks, and
\* the corpus is that one chunk
C30_Witness ==
    /\ replaced
    /\ Len(loaded) = 1
    /\ self_chunks = <<ChunkOf("Ganoderma tea", 1)>>

=============================================================================
